---- MODULE Spec2Model ----
(***************************************************************************)
(* Model of the WeChat source registration flow of nju_crawler:            *)
(*   scripts/wechat_setup.py  (session resolution, merge, manual crawl)    *)
(*   wechat/config.py         (load_configurations, module globals)        *)
(* One run of the script is a process that imports wechat.config, runs     *)
(* main() and exits; the registry file config/sources/wechat.json and the  *)
(* credential file cfg/cookies.json outlive the runs.                      *)
(***************************************************************************)
EXTENDS Integers, Sequences, FiniteSets, TLC

\* ---------------------------------------------------------------- bounds
MaxNames == 2        \* display names given to the script, all runs together
MaxRuns == 2         \* runs of the script in one behaviour
MaxSources == 2      \* records of a registry document that is loaded and saved back
MaxTicks == 4        \* times the crawl timer of the service fires

\* ------------------------------------------------------- JSON / Python values
Absent == "<absent>"   \* key not present in a dict
Null == "<null>"       \* JSON null / Python None

\* dict.get(key): a missing key reads as None
Get(d, k) == IF d[k] = Absent THEN Null ELSE d[k]

\* Python truthiness of a value read with .get
Truthy(v) == v \notin {Absent, Null, ""}

SessionKeys == {"token", "cookies_str", "user_agent"}

\* bool(dict): a dict is truthy iff it holds at least one key
DictTruthy(d) == \E k \in SessionKeys : d[k] # Absent

NoSess == [token |-> Absent, cookies_str |-> Absent, user_agent |-> Absent]
BlankSess == [token |-> "", cookies_str |-> "", user_agent |-> "UA"]
SessA == [token |-> "tokA", cookies_str |-> Absent, user_agent |-> Absent]
SessB == [token |-> Null, cookies_str |-> "ck=B", user_agent |-> "UA"]

\* session.get("token") or session.get("cookies_str")
Usable(s) == Truthy(Get(s, "token")) \/ Truthy(Get(s, "cookies_str"))

\* the copy forgets user_agent
Snapshot_noAgent(s) ==
    [token |-> Get(s, "token"),
     cookies_str |-> Get(s, "cookies_str"),
     user_agent |-> Null]

\* the three-field copy taken by merge_wechat_config and build_source_entry
Snapshot(s) ==
    [token |-> Get(s, "token"),
     cookies_str |-> Get(s, "cookies_str"),
     user_agent |-> Get(s, "user_agent")]

\* dict.update(other): keys of other overwrite, the remaining keys stay
DictUpdate(old, new) ==
    [k \in SessionKeys |-> IF new[k] = Absent THEN old[k] ELSE new[k]]

\* ---------------------------------------------------------------- inputs
Names == {"A", "A-renamed"}
Biz == {"b1", "b2"}
Counts == {10}
NotFound == "<notfound>"

SeqsUpTo(S, n) == UNION {[1..k -> S] : k \in 0..n}

\* the id is made from the display name
build_source_entry_byname(name, biz, wx_cfg, count, t) ==
    [id |-> "wechat_" \o name,
     name |-> name,
     biz |-> biz,
     wx_cfg |-> Snapshot(wx_cfg),
     count |-> count,
     created_at |-> t]

build_source_entry(name, biz, wx_cfg, count, t) ==
    [id |-> "wechat_" \o biz,
     name |-> name,
     biz |-> biz,
     wx_cfg |-> Snapshot(wx_cfg),
     count |-> count,
     created_at |-> t]

\* the records main builds for the names looked up so far: one per name
\* whose lookup returned a platform key, in the order of the names
RECURSIVE EntriesFor(_, _, _, _, _)
EntriesFor(ns, log, sess, cnt, t) ==
    IF log = <<>> THEN <<>>
    ELSE LET rest == EntriesFor(Tail(ns), Tail(log), sess, cnt, t)
         IN IF Head(log) = NotFound THEN rest
            ELSE <<build_source_entry(Head(ns), Head(log), sess, cnt, t)>> \o rest

\* records a registry file may hold before the first run
RecA == build_source_entry("A", "b1", SessA, 5, 0)
RecA2 == build_source_entry("A-renamed", "b1", SessA, 10, 0)
RecB == build_source_entry("A", "b2", SessA, 5, 0)

\* the `sources` lists of those files: empty, one record, two records, and
\* lists that hold the same id twice (hand-edited or written by an older tool)
InitSources ==
    {<<>>, <<RecA>>, <<RecB, RecA>>, <<RecA, RecA2>>, <<RecA, RecB, RecA2>>}

\* ------------------------------------------------------------------ files
\* config/sources/wechat.json
\* kind: "missing", "malformed" (not JSON), "undecodable" (not UTF-8),
\* "nonobject" (JSON, but no object), "truncated" (opened for writing and
\* not written in full), "doc" (an object with session and sources)
NoDoc(kind) == [kind |-> kind, session |-> NoSess, sources |-> <<>>]
Doc(session, sources) == [kind |-> "doc", session |-> session, sources |-> sources]

\* before the first run: no file, a file that does not load, a document
\* without sources under each kind of session, a document of an older
\* layout (sources, no session), documents with sources and a session
InitCfgFiles ==
    {NoDoc(k) : k \in {"missing", "malformed", "undecodable", "nonobject"}}
    \cup {Doc(s, <<>>) : s \in {NoSess, BlankSess, SessA}}
    \cup {Doc(NoSess, <<RecA>>)}
    \cup {Doc(SessA, l) : l \in InitSources \ {<<>>}}

\* cfg/cookies.json
CookieFile(kind, sess) == [kind |-> kind, sess |-> sess]
InitCookieFiles ==
    {CookieFile(k, NoSess) : k \in {"missing", "unparseable", "empty"}}
    \cup {CookieFile("obj", s) : s \in {BlankSess, SessB}}

\* ---------------------------------------------------------- dict of sources
\* a list in place of the dict: every entry is appended
DictPut_append(d, s) == Append(d, s)

\* setdefault in place of assignment: the first record of an id stays
DictPut_keep(d, s) ==
    IF \E i \in 1..Len(d) : d[i].id = s.id THEN d ELSE Append(d, s)

\* delete and insert in place of assignment: an overwritten id moves to
\* the end
DictPut_moveToEnd(d, s) ==
    Append(SelectSeq(d, LAMBDA r : r.id # s.id), s)

\* A Python dict keyed by id, kept as the sequence of its values in
\* insertion order: existing[s["id"]] = s
DictPut(d, s) ==
    IF \E i \in 1..Len(d) : d[i].id = s.id
    THEN [i \in 1..Len(d) |-> IF d[i].id = s.id THEN s ELSE d[i]]
    ELSE Append(d, s)

RECURSIVE DictPutAll(_, _)
DictPutAll(d, l) ==
    IF l = <<>> THEN d ELSE DictPutAll(DictPut(d, Head(l)), Tail(l))

\* existing = {s.get("id"): s for s in data.get("sources", [])};
\* for s in new_sources: existing[s["id"]] = s; list(existing.values())
MergeSources(old, new) == DictPutAll(DictPutAll(<<>>, old), new)

\* the try block of load_configurations: what the two globals become
LoadConfigurations(srcs, sess, file) ==
    IF file.kind = "doc"
    THEN [sources |-> srcs \o file.sources,
          session |-> DictUpdate(sess, file.session)]
    ELSE [sources |-> srcs, session |-> sess]

\* the read at the head of merge_wechat_config; "raise" when data.get fails
MergeLoad(file) ==
    CASE file.kind = "doc" -> [ok |-> TRUE, sources |-> file.sources]
      [] file.kind = "nonobject" -> [ok |-> FALSE, sources |-> <<>>]
      [] OTHER -> [ok |-> TRUE, sources |-> <<>>]

\* ------------------------------------------------ environment variables
\* a value of os.getenv: None, or a string written as its characters
Unset == <<"<unset>">>
EnvValues ==
    {Unset, <<>>, <<"1">>, <<"0">>, <<"t", "r", "u", "e">>,
     <<" ", "T", "r", "u", "e", " ">>, <<"O", "N">>, <<"y", "e", "s">>,
     <<"n", "o">>, <<"o", "f", "f">>, <<"f", "a", "l", "s", "e">>}

Whitespace == {" ", "\t", "\n"}

\* str.strip()
RECURSIVE Strip(_)
Strip(v) ==
    IF v = <<>> THEN v
    ELSE IF Head(v) \in Whitespace THEN Strip(Tail(v))
    ELSE IF v[Len(v)] \in Whitespace THEN Strip(SubSeq(v, 1, Len(v) - 1))
    ELSE v

\* str.lower(), on the letters the values are written with
LowerChar(c) ==
    CASE c = "T" -> "t" [] c = "R" -> "r" [] c = "U" -> "u" [] c = "E" -> "e"
      [] c = "O" -> "o" [] c = "N" -> "n" [] c = "Y" -> "y" [] c = "S" -> "s"
      [] OTHER -> c
Lower(v) == [i \in 1..Len(v) |-> LowerChar(v[i])]

\* any non-empty value counts as true
get_bool_env_nonempty(value, default) ==
    IF value = Unset THEN default ELSE value # <<>>

\* _get_bool_env
get_bool_env(value, default) ==
    IF value = Unset THEN default
    ELSE Lower(Strip(value)) \in
             {<<"1">>, <<"t", "r", "u", "e">>, <<"y", "e", "s">>, <<"o", "n">>}

\* ------------------------------------------------------------------ state
VARIABLES
    cfgFile,         \* config/sources/wechat.json
    cookieFile,      \* cfg/cookies.json
    wechat_auth,     \* the import of the login module: "unknown" until the
                     \* run consults it, then "module" or "none"
    now,             \* int(time.time()) of the current run
    runs,            \* runs of the script started so far
    named,           \* display names given so far, all runs
    pc,              \* position of the current run
    WECHAT_SOURCES,  \* wechat.config.WECHAT_SOURCES
    WECHAT_SESSION,  \* wechat.config.WECHAT_SESSION
    names,           \* main: names
    count,           \* main: args.count
    wx_cfg,          \* main: wx_cfg
    sessFrom,        \* which branch of ensure_session_interactive returned
    cookieReads,     \* calls of load_local_session in this run
    loginCalls,      \* calls of wechat_auth.get_cookies in this run
    loginData,       \* what get_cookies returned
    lookups,         \* calls of get_fakeid_by_name in this run
    bizLog,          \* main: the values `biz` took, one per name looked up
    idx,             \* loop index (names loop, then crawl loop)
    new_sources,     \* main: new_sources
    new_ids,         \* main: new_ids
    data,            \* merge_wechat_config: data["sources"] as loaded
    merged,          \* merge_wechat_config: merged
    reloaded,        \* main reached load_configurations after the merge
    fetchCalls,      \* calls of crawl_wechat_source: id and outcome
    crawlLog,        \* lines printed by maybe_crawl_sources
    retries,         \* crawl_wechat_source: requests made again by the current fetch
    error,           \* exception that ended the run, or "none"
    autoCrawlEnv,    \* os.getenv("AUTO_CRAWL_ENABLED") in the service
    AUTO_CRAWL_ENABLED,  \* wechat.config.AUTO_CRAWL_ENABLED in the service
    ticks,           \* times the crawl timer fired
    inFlight,        \* scheduled passes running
    started          \* scheduled passes started

persistent == <<cfgFile, cookieFile, now, runs, named>>
globals == <<WECHAT_SOURCES, WECHAT_SESSION>>
sessVars == <<wechat_auth, wx_cfg, sessFrom, cookieReads, loginCalls, loginData>>
mainVars == <<names, count, lookups, bizLog, idx, new_sources, new_ids>>
mergeVars == <<data, merged, reloaded>>
crawlVars == <<fetchCalls, crawlLog, retries>>
schedVars == <<autoCrawlEnv, AUTO_CRAWL_ENABLED, ticks, inFlight, started>>

vars == <<cfgFile, cookieFile, wechat_auth, now, runs, named, pc,
          WECHAT_SOURCES, WECHAT_SESSION, names, count, wx_cfg, sessFrom,
          cookieReads, loginCalls, loginData, lookups, bizLog, idx,
          new_sources, new_ids, data, merged, reloaded, fetchCalls, crawlLog, retries,
          error, autoCrawlEnv, AUTO_CRAWL_ENABLED, ticks, inFlight, started>>

\* a value returned by wechat_auth.get_cookies(), or the call not made yet
LoginResult(kind, sess) == [kind |-> kind, sess |-> sess]
NotCalled == LoginResult("notcalled", NoSess)

\* no service process: the script reads no runtime parameter
NoService ==
    /\ autoCrawlEnv = Unset
    /\ AUTO_CRAWL_ENABLED = FALSE
    /\ ticks = 0
    /\ inFlight = 0
    /\ started = 0

\* the values of a fresh process
FreshRun ==
    /\ pc = "import"
    /\ WECHAT_SOURCES = <<>>
    /\ WECHAT_SESSION = NoSess
    /\ wechat_auth = "unknown"
    /\ names = <<>>
    /\ count = 10
    /\ wx_cfg = NoSess
    /\ sessFrom = "none"
    /\ cookieReads = 0
    /\ loginCalls = 0
    /\ loginData = NotCalled
    /\ lookups = 0
    /\ bizLog = <<>>
    /\ idx = 1
    /\ new_sources = <<>>
    /\ new_ids = <<>>
    /\ data = <<>>
    /\ merged = NoDoc("missing")
    /\ reloaded = FALSE
    /\ fetchCalls = <<>>
    /\ crawlLog = <<>>
    /\ retries = 0
    /\ error = "none"

Init ==
    /\ cfgFile \in InitCfgFiles
    /\ cookieFile \in InitCookieFiles
    /\ now = 1
    /\ runs = 1
    /\ named = 0
    /\ FreshRun
    /\ NoService

\* ------------------------------------------------------ wechat/config.py
\* "load on import": load_configurations() at the import of wechat.config
Import ==
    /\ pc = "import"
    /\ LET r == LoadConfigurations(WECHAT_SOURCES, WECHAT_SESSION, cfgFile)
       IN /\ WECHAT_SOURCES' = r.sources
          /\ WECHAT_SESSION' = r.session
    /\ pc' = "args"
    /\ UNCHANGED <<persistent, sessVars, mainVars, mergeVars, crawlVars, error>>
    /\ UNCHANGED schedVars

\* ------------------------------------------------ scripts/wechat_setup.py
\* main, up to the call of ensure_session_interactive: names after
\* split/strip/filter, args.count; no name given ends the run
ParseArgs ==
    /\ pc = "args"
    /\ \E ns \in SeqsUpTo(Names, MaxNames - named), c \in Counts :
        /\ names' = ns
        /\ count' = c
        /\ named' = named + Len(ns)
        /\ pc' = IF ns = <<>> THEN "done" ELSE "resolve"
    /\ UNCHANGED <<cfgFile, cookieFile, now, runs, globals, sessVars, lookups, bizLog, idx, new_sources,
                   new_ids, mergeVars, crawlVars, error>>
    /\ UNCHANGED schedVars

\* "and" in place of "or" between the two credentials
PersistedAccepted_both(s) ==
    DictTruthy(s) /\ Truthy(Get(s, "token")) /\ Truthy(Get(s, "cookies_str"))

\* session_from_conf and (session_from_conf.get("token") or
\*                        session_from_conf.get("cookies_str"))
PersistedAccepted(s) == DictTruthy(s) /\ Usable(s)

\* ensure_session_interactive, first branch: the session of wechat.json
ResolvePersisted ==
    /\ pc = "resolve"
    /\ IF PersistedAccepted(WECHAT_SESSION)
       THEN /\ wx_cfg' = WECHAT_SESSION
            /\ sessFrom' = "persisted"
            /\ pc' = "lookup"
       ELSE /\ pc' = "resolve_file"
            /\ UNCHANGED <<wx_cfg, sessFrom>>
    /\ UNCHANGED <<persistent, globals, wechat_auth, cookieReads, loginCalls,
                   loginData, mainVars, mergeVars, crawlVars, error>>
    /\ UNCHANGED schedVars

\* load_local_session: None when the file is missing or does not parse,
\* else the parsed value
load_local_session(file) ==
    IF file.kind \in {"missing", "unparseable"}
    THEN [none |-> TRUE, sess |-> NoSess]
    ELSE [none |-> FALSE, sess |-> file.sess]

\* "if sess:" on the value load_local_session returned
LocalAccepted(r) == ~r.none /\ DictTruthy(r.sess)

\* ensure_session_interactive, second branch: cfg/cookies.json
ResolveLocalFile ==
    /\ pc = "resolve_file"
    /\ cookieReads' = cookieReads + 1
    /\ LET r == load_local_session(cookieFile)
       IN IF LocalAccepted(r)
          THEN /\ wx_cfg' = r.sess
               /\ sessFrom' = "file"
               /\ pc' = "lookup"
          ELSE /\ pc' = "resolve_login"
               /\ UNCHANGED <<wx_cfg, sessFrom>>
    /\ UNCHANGED <<persistent, globals, wechat_auth, loginCalls, loginData,
                   mainVars, mergeVars, crawlVars, error>>
    /\ UNCHANGED schedVars

\* what wechat_auth.get_cookies() may return: nothing, or a dict
LoginResults ==
    {LoginResult("nothing", NoSess)}
    \cup {LoginResult("obj", s) : s \in {BlankSess, SessB}}

\* "if data:" on the value get_cookies returned
LoginAccepted(d) == d.kind = "obj" /\ DictTruthy(d.sess)

\* the write of cfg/cookies.json inside try/except: written in full, not
\* opened at all, or opened (truncated) and cut short; never raised
CookieWriteOutcomes(old, d) ==
    {CookieFile("obj", d.sess), old, CookieFile("unparseable", NoSess)}

\* ensure_session_interactive, third branch: interactive login
ResolveLogin ==
    /\ pc = "resolve_login"
    /\ wechat_auth' = "module"
    /\ loginCalls' = loginCalls + 1
    /\ \E d \in LoginResults :
        /\ loginData' = d
        /\ IF LoginAccepted(d)
           THEN /\ cookieFile' \in CookieWriteOutcomes(cookieFile, d)
                /\ wx_cfg' = d.sess
                /\ sessFrom' = "login"
                /\ pc' = "lookup"
           ELSE /\ pc' = "resolve_raise"
                /\ UNCHANGED <<cookieFile, wx_cfg, sessFrom>>
    /\ UNCHANGED <<cfgFile, now, runs, named, globals,
                   cookieReads, mainVars, mergeVars, crawlVars, error>>
    /\ UNCHANGED schedVars

\* wechat_auth is None or has no get_cookies: the branch is skipped
ResolveNoLogin ==
    /\ pc = "resolve_login"
    /\ wechat_auth' = "none"
    /\ pc' = "resolve_raise"
    /\ UNCHANGED <<persistent, globals, wx_cfg, sessFrom, cookieReads,
                   loginCalls, loginData, mainVars, mergeVars, crawlVars,
                   error>>
    /\ UNCHANGED schedVars

\* get_cookies raises: nothing catches it
LoginRaises ==
    /\ pc = "resolve_login"
    /\ wechat_auth' = "module"
    /\ loginCalls' = loginCalls + 1
    /\ pc' = "failed"
    /\ error' = "LoginError"
    /\ UNCHANGED <<persistent, globals, wx_cfg, sessFrom, cookieReads,
                   loginData, mainVars, mergeVars, crawlVars>>
    /\ UNCHANGED schedVars

\* an empty session returned in place of the raise
NoSessionRaise_empty ==
    /\ pc = "resolve_raise"
    /\ pc' = "lookup"
    /\ wx_cfg' = NoSess
    /\ UNCHANGED <<persistent, globals, wechat_auth, sessFrom, cookieReads,
                   loginCalls, loginData, mainVars, mergeVars, crawlVars,
                   error>>
    /\ UNCHANGED schedVars

\* raise RuntimeError(...) at the end of ensure_session_interactive
NoSessionRaise ==
    /\ pc = "resolve_raise"
    /\ pc' = "failed"
    /\ error' = "NoSessionAvailable"
    /\ UNCHANGED <<persistent, globals, sessVars, mainVars, mergeVars,
                   crawlVars>>
    /\ UNCHANGED schedVars

\* the loop leaves at the first name without a platform key ("break")
Lookup_break ==
    /\ pc = "lookup"
    /\ idx <= Len(names)
    /\ lookups' = lookups + 1
    /\ \E biz \in Biz \cup {NotFound} :
        /\ bizLog' = Append(bizLog, biz)
        /\ IF biz = NotFound
           THEN /\ idx' = Len(names) + 1
                /\ UNCHANGED <<new_sources, new_ids>>
           ELSE LET entry == build_source_entry(names[idx], biz, wx_cfg, count, now)
                IN /\ idx' = idx + 1
                   /\ new_sources' = Append(new_sources, entry)
                   /\ new_ids' = Append(new_ids, entry.id)
    /\ UNCHANGED <<persistent, pc,
                   globals, sessVars, names, count, mergeVars, crawlVars,
                   error>>
    /\ UNCHANGED schedVars

\* one iteration of "for name in names": get_fakeid_by_name, then either
\* "continue" or build_source_entry and the two appends
Lookup ==
    /\ pc = "lookup"
    /\ idx <= Len(names)
    /\ lookups' = lookups + 1
    /\ idx' = idx + 1
    /\ \E biz \in Biz \cup {NotFound} :
        /\ bizLog' = Append(bizLog, biz)
        /\ IF biz = NotFound
           THEN UNCHANGED <<new_sources, new_ids>>
           ELSE LET entry == build_source_entry(names[idx], biz, wx_cfg, count, now)
                IN /\ new_sources' = Append(new_sources, entry)
                   /\ new_ids' = Append(new_ids, entry.id)
    /\ UNCHANGED <<persistent, pc,
                   globals, sessVars, names, count, mergeVars, crawlVars,
                   error>>
    /\ UNCHANGED schedVars

\* get_fakeid_by_name raises: nothing catches it
LookupRaises ==
    /\ pc = "lookup"
    /\ idx <= Len(names)
    /\ lookups' = lookups + 1
    /\ pc' = "failed"
    /\ error' = "LookupError"
    /\ UNCHANGED <<persistent, globals, sessVars, names, count, bizLog, idx,
                   new_sources, new_ids, mergeVars, crawlVars>>
    /\ UNCHANGED schedVars

\* the merge is called without the test "if new_sources:"
AfterLookup_always ==
    /\ pc = "lookup"
    /\ idx > Len(names)
    /\ pc' = "merge_read"
    /\ UNCHANGED <<persistent, globals, sessVars, mainVars, mergeVars,
                   crawlVars, error>>
    /\ UNCHANGED schedVars

\* "if new_sources:" after the loop
AfterLookup ==
    /\ pc = "lookup"
    /\ idx > Len(names)
    /\ pc' = IF new_sources # <<>> THEN "merge_read" ELSE "done"
    /\ UNCHANGED <<persistent, globals, sessVars, mainVars, mergeVars,
                   crawlVars, error>>
    /\ UNCHANGED schedVars

\* merge_wechat_config up to the construction of `merged`: the lenient
\* read, the dict keyed by id, the session snapshot
MergeRead ==
    /\ pc = "merge_read"
    /\ LET r == MergeLoad(cfgFile)
       IN IF r.ok
          THEN /\ data' = r.sources
               /\ merged' = Doc(Snapshot(wx_cfg),
                                MergeSources(r.sources, new_sources))
               /\ pc' = "merge_open"
               /\ UNCHANGED error
          ELSE /\ pc' = "failed"
               /\ error' = "MergeLoadError"
               /\ UNCHANGED <<data, merged>>
    /\ UNCHANGED <<persistent, globals, sessVars, mainVars, reloaded,
                   crawlVars>>
    /\ UNCHANGED schedVars

\* open(WECHAT_CONFIG_PATH, "w"): the file exists and is empty
MergeOpen ==
    /\ pc = "merge_open"
    /\ cfgFile' = NoDoc("truncated")
    /\ pc' = "merge_dump"
    /\ UNCHANGED <<cookieFile, now, runs, named, globals,
                   sessVars, mainVars, mergeVars, crawlVars, error>>
    /\ UNCHANGED schedVars

\* os.makedirs or open(..., "w") raises: the file is as it was
MergeOpenFails ==
    /\ pc = "merge_open"
    /\ pc' = "failed"
    /\ error' = "PersistFailed"
    /\ UNCHANGED <<persistent, globals, sessVars, mainVars, mergeVars,
                   crawlVars>>
    /\ UNCHANGED schedVars

\* json.dump(merged, f) and the close of the file succeed
MergeDump ==
    /\ pc = "merge_dump"
    /\ cfgFile' = merged
    /\ pc' = "reload"
    /\ UNCHANGED <<cookieFile, now, runs, named, globals,
                   sessVars, mainVars, mergeVars, crawlVars, error>>
    /\ UNCHANGED schedVars

\* the write wrapped in try/except: the failure is swallowed
MergeDumpFails_swallowed ==
    /\ pc = "merge_dump"
    /\ pc' = "reload"
    /\ UNCHANGED <<persistent, globals, sessVars, mainVars, mergeVars,
                   crawlVars, error>>
    /\ UNCHANGED schedVars

\* json.dump raises part-way (disk full, I/O error): a cut file stays
MergeDumpFails ==
    /\ pc = "merge_dump"
    /\ pc' = "failed"
    /\ error' = "PersistFailed"
    /\ UNCHANGED <<persistent, globals, sessVars, mainVars, mergeVars,
                   crawlVars>>
    /\ UNCHANGED schedVars

\* load_configurations() without the clear() before it
Reload_noclear ==
    /\ pc = "reload"
    /\ LET r == LoadConfigurations(WECHAT_SOURCES, WECHAT_SESSION, cfgFile)
       IN /\ WECHAT_SOURCES' = r.sources
          /\ WECHAT_SESSION' = r.session
          /\ wx_cfg' = IF sessFrom = "persisted" THEN r.session ELSE wx_cfg
    /\ reloaded' = TRUE
    /\ pc' = "crawl_ask"
    /\ UNCHANGED <<persistent, wechat_auth, sessFrom, cookieReads,
                   loginCalls, loginData, mainVars, data, merged, crawlVars,
                   error>>
    /\ UNCHANGED schedVars

\* main after the merge: WECHAT_SOURCES.clear(); load_configurations().
\* wx_cfg is the WECHAT_SESSION object itself when the first branch of
\* ensure_session_interactive returned it
Reload ==
    /\ pc = "reload"
    /\ LET r == LoadConfigurations(<<>>, WECHAT_SESSION, cfgFile)
       IN /\ WECHAT_SOURCES' = r.sources
          /\ WECHAT_SESSION' = r.session
          /\ wx_cfg' = IF sessFrom = "persisted" THEN r.session ELSE wx_cfg
    /\ reloaded' = TRUE
    /\ pc' = "crawl_ask"
    /\ UNCHANGED <<persistent, wechat_auth, sessFrom, cookieReads,
                   loginCalls, loginData, mainVars, data, merged, crawlVars,
                   error>>
    /\ UNCHANGED schedVars

\* "if args.crawl: ... else: yn = input(...)"
CrawlDecide ==
    /\ pc = "crawl_ask"
    /\ \E yes \in BOOLEAN : pc' = IF yes THEN "crawl" ELSE "done"
    /\ idx' = 1
    /\ UNCHANGED <<persistent, globals, sessVars, names, count, lookups, bizLog,
                   new_sources, new_ids, mergeVars, crawlVars, error>>
    /\ UNCHANGED schedVars

ItemCounts == {2}
FetchErrors == {"timeout"}
MAX_RETRIES == 3
\* the failure of a fetch whose requests were all cut short or failed
RetriesExhausted == "exhausted"
\* what a fetch can raise after r of its requests were made again
FetchRaises(r) ==
    FetchErrors \cup (IF r = MAX_RETRIES THEN {RetriesExhausted} ELSE {})
FetchOk(sid, n) == [id |-> sid, ok |-> TRUE, n |-> n, err |-> "none"]
FetchFailed(sid, e) == [id |-> sid, ok |-> FALSE, n |-> 0, err |-> e]

\* maybe_crawl_sources, one iteration whose fetch returns items
CrawlOk ==
    /\ pc = "crawl"
    /\ idx <= Len(new_ids)
    /\ \E n \in ItemCounts :
        /\ fetchCalls' = Append(fetchCalls, FetchOk(new_ids[idx], n))
        /\ crawlLog' = Append(crawlLog, FetchOk(new_ids[idx], n))
    /\ idx' = idx + 1
    /\ retries' = 0
    /\ UNCHANGED <<persistent, pc, globals, sessVars, names, count, lookups, bizLog,
                   new_sources, new_ids, mergeVars, error>>
    /\ UNCHANGED schedVars

\* no try/except around the fetch: the first failure ends the run
CrawlFails_abort ==
    /\ pc = "crawl"
    /\ idx <= Len(new_ids)
    /\ \E e \in FetchRaises(retries) :
        fetchCalls' = Append(fetchCalls, FetchFailed(new_ids[idx], e))
    /\ pc' = "failed"
    /\ error' = "FetchError"
    /\ retries' = 0
    /\ UNCHANGED <<persistent, globals, sessVars, mainVars, mergeVars,
                   crawlLog>>
    /\ UNCHANGED schedVars

\* the except branch leaves the loop ("break")
CrawlFails_break ==
    /\ pc = "crawl"
    /\ idx <= Len(new_ids)
    /\ \E e \in FetchRaises(retries) :
        /\ fetchCalls' = Append(fetchCalls, FetchFailed(new_ids[idx], e))
        /\ crawlLog' = Append(crawlLog, FetchFailed(new_ids[idx], e))
    /\ idx' = Len(new_ids) + 1
    /\ retries' = 0
    /\ UNCHANGED <<persistent, pc, globals, sessVars, names, count, lookups, bizLog,
                   new_sources, new_ids, mergeVars, error>>
    /\ UNCHANGED schedVars

\* maybe_crawl_sources, one iteration whose fetch raises: except Exception
CrawlFails ==
    /\ pc = "crawl"
    /\ idx <= Len(new_ids)
    /\ \E e \in FetchRaises(retries) :
        /\ fetchCalls' = Append(fetchCalls, FetchFailed(new_ids[idx], e))
        /\ crawlLog' = Append(crawlLog, FetchFailed(new_ids[idx], e))
    /\ idx' = idx + 1
    /\ retries' = 0
    /\ UNCHANGED <<persistent, pc, globals, sessVars, names, count, lookups, bizLog,
                   new_sources, new_ids, mergeVars, error>>
    /\ UNCHANGED schedVars

\* the loop of maybe_crawl_sources is over; main returns
CrawlDone ==
    /\ pc = "crawl"
    /\ idx > Len(new_ids)
    /\ pc' = "done"
    /\ UNCHANGED <<persistent, globals, sessVars, mainVars, mergeVars,
                   crawlVars, error>>
    /\ UNCHANGED schedVars

\* the script is run again, later: a new process, the two files as they
\* were left
Restart ==
    /\ pc \in {"done", "failed"}
    /\ runs < MaxRuns
    /\ runs' = runs + 1
    /\ pc' = "import"
    /\ WECHAT_SOURCES' = <<>>
    /\ WECHAT_SESSION' = NoSess
    /\ wechat_auth' = "unknown"
    /\ names' = <<>>
    /\ count' = 10
    /\ wx_cfg' = NoSess
    /\ sessFrom' = "none"
    /\ cookieReads' = 0
    /\ loginCalls' = 0
    /\ loginData' = NotCalled
    /\ lookups' = 0
    /\ bizLog' = <<>>
    /\ idx' = 1
    /\ new_sources' = <<>>
    /\ new_ids' = <<>>
    /\ data' = <<>>
    /\ merged' = NoDoc("missing")
    /\ reloaded' = FALSE
    /\ fetchCalls' = <<>>
    /\ crawlLog' = <<>>
    /\ retries' = 0
    /\ error' = "none"
    /\ now' = now + 1
    /\ UNCHANGED <<cfgFile, cookieFile, named>>
    /\ UNCHANGED schedVars

\* ------------------------------------------- load, save back, load again
\* a session with every field set
FullSess == [token |-> "tokB", cookies_str |-> "ck=B", user_agent |-> "UA"]

\* registry documents as a process finds them: any session, any list of
\* records (ids repeated or not)
RoundTripDocs ==
    {Doc(s, l) : s \in {NoSess, BlankSess, SessA, SessB, FullSess},
                 l \in SeqsUpTo({RecA, RecA2, RecB}, MaxSources)}

InitRoundTrip ==
    /\ cfgFile \in RoundTripDocs
    /\ cookieFile = CookieFile("missing", NoSess)
    /\ now = 1
    /\ runs = 1
    /\ named = 0
    /\ FreshRun
    /\ NoService

\* merge_wechat_config(new_sources = [], session = WECHAT_SESSION) is
\* called: what the import loaded is saved back
SaveLoaded ==
    /\ pc = "args"
    /\ wx_cfg' = WECHAT_SESSION
    /\ sessFrom' = "persisted"
    /\ pc' = "merge_read"
    /\ UNCHANGED <<persistent, globals, wechat_auth, cookieReads, loginCalls,
                   loginData, mainVars, mergeVars, crawlVars, error>>
    /\ UNCHANGED schedVars

\* --------------------------------------------- the fetch, request by request
\* crawl_wechat_source: a request of the current fetch failed or was cut by
\* the per-request timeout, and is made again; at most MAX_RETRIES times
FetchRetry ==
    /\ pc = "crawl"
    /\ idx <= Len(new_ids)
    /\ retries < MAX_RETRIES
    /\ retries' = retries + 1
    /\ UNCHANGED <<persistent, pc, globals, sessVars, mainVars, mergeVars,
                   fetchCalls, crawlLog, error>>
    /\ UNCHANGED schedVars

\* the start of maybe_crawl_sources in a first run that found no registry
\* file and took its session from cfg/cookies.json: the names given, what
\* the lookups returned, the count given
InitFetch ==
    \E ns \in SeqsUpTo(Names, MaxNames) \ {<<>>}, c \in Counts :
    \E log \in [1..Len(ns) -> Biz \cup {NotFound}] :
        LET entries == EntriesFor(ns, log, SessB, c, 1)
            doc == Doc(Snapshot(SessB), MergeSources(<<>>, entries))
        IN /\ entries # <<>>
           /\ cfgFile = doc
           /\ cookieFile = CookieFile("obj", SessB)
           /\ wechat_auth = "unknown"
           /\ now = 1
           /\ runs = 1
           /\ named = Len(ns)
           /\ pc = "crawl"
           /\ WECHAT_SOURCES = doc.sources
           /\ WECHAT_SESSION = doc.session
           /\ names = ns
           /\ count = c
           /\ wx_cfg = SessB
           /\ sessFrom = "file"
           /\ cookieReads = 1
           /\ loginCalls = 0
           /\ loginData = NotCalled
           /\ lookups = Len(ns)
           /\ bizLog = log
           /\ idx = 1
           /\ new_sources = entries
           /\ new_ids = [i \in 1..Len(entries) |-> entries[i].id]
           /\ data = <<>>
           /\ merged = doc
           /\ reloaded = TRUE
           /\ fetchCalls = <<>>
           /\ crawlLog = <<>>
           /\ retries = 0
           /\ error = "none"
           /\ NoService

\* ------------------------------------------------- the service's crawl timer
InitSched ==
    /\ cfgFile \in InitCfgFiles
    /\ cookieFile = CookieFile("missing", NoSess)
    /\ now = 1
    /\ runs = 1
    /\ named = 0
    /\ FreshRun
    /\ autoCrawlEnv \in EnvValues
    /\ AUTO_CRAWL_ENABLED = FALSE
    /\ ticks = 0
    /\ inFlight = 0
    /\ started = 0

\* the service imports wechat.config: the runtime parameters are read from
\* the environment, then the load on import
ServiceImport ==
    /\ pc = "import"
    /\ AUTO_CRAWL_ENABLED' = get_bool_env(autoCrawlEnv, TRUE)
    /\ LET r == LoadConfigurations(WECHAT_SOURCES, WECHAT_SESSION, cfgFile)
       IN /\ WECHAT_SOURCES' = r.sources
          /\ WECHAT_SESSION' = r.session
    /\ pc' = "serving"
    /\ UNCHANGED <<persistent, sessVars, mainVars, mergeVars, crawlVars, error,
                   autoCrawlEnv, ticks, inFlight, started>>

\* CRAWL_INTERVAL has elapsed: a scheduled pass over the registry starts if
\* the flag is set and no scheduled pass is running, else this tick is
\* skipped
TimerFire ==
    /\ pc = "serving"
    /\ ticks < MaxTicks
    /\ ticks' = ticks + 1
    /\ IF AUTO_CRAWL_ENABLED /\ inFlight = 0
       THEN /\ inFlight' = inFlight + 1
            /\ started' = started + 1
       ELSE UNCHANGED <<inFlight, started>>
    /\ UNCHANGED <<persistent, pc, globals, sessVars, mainVars, mergeVars,
                   crawlVars, error, autoCrawlEnv, AUTO_CRAWL_ENABLED>>

\* a scheduled pass has fetched every id of the registry and ends
PassEnds ==
    /\ pc = "serving"
    /\ inFlight > 0
    /\ inFlight' = inFlight - 1
    /\ UNCHANGED <<persistent, pc, globals, sessVars, mainVars, mergeVars,
                   crawlVars, error, autoCrawlEnv, AUTO_CRAWL_ENABLED, ticks,
                   started>>

\* =============================================================== properties
\* merge_wechat_config of the current run has returned
Persisted ==
    \/ pc \in {"reload", "crawl_ask", "crawl"}
    \/ pc = "done" /\ new_sources # <<>>

\* ensure_session_interactive of the current run has returned or raised
PastResolve ==
    /\ names # <<>>
    /\ pc \notin {"import", "args", "resolve", "resolve_file",
                  "resolve_login", "resolve_raise"}

IdsOf(l) == {l[i].id : i \in 1..Len(l)}
NoDupIds(l) == \A i, j \in 1..Len(l) : l[i].id = l[j].id => i = j
IndicesOf(l, id) == {i \in 1..Len(l) : l[i].id = id}
Max(S) == CHOOSE x \in S : \A y \in S : y <= x

\* C1: whatever document the registry file held (one with duplicate ids
\* included), once a merge has returned the persisted `sources` list holds
\* no two records with the same id.
C1_Uniqueness ==
    Persisted => cfgFile.kind = "doc" /\ NoDupIds(cfgFile.sources)

\* a merge has returned where both the document read and the new entries
\* held an id twice
C1_Witness ==
    /\ Persisted
    /\ ~NoDupIds(data)
    /\ ~NoDupIds(new_sources)

\* C2: after a merge, every id among the new entries has exactly one
\* persisted record, and its name, count, wx_cfg and created_at are those of
\* the last new entry with that id.
C2_LastWriteWins ==
    Persisted =>
        \A id \in IdsOf(new_sources) :
            /\ Cardinality(IndicesOf(cfgFile.sources, id)) = 1
            /\ LET latest == new_sources[Max(IndicesOf(new_sources, id))]
               IN \A j \in IndicesOf(cfgFile.sources, id) :
                    /\ cfgFile.sources[j].name = latest.name
                    /\ cfgFile.sources[j].count = latest.count
                    /\ cfgFile.sources[j].wx_cfg = latest.wx_cfg
                    /\ cfgFile.sources[j].created_at = latest.created_at

\* the registry held {wechat_b1, A, 5}; {wechat_b1, A, 10} and then
\* {wechat_b1, A-renamed, 10} were merged: one record, A-renamed, 10
C2_Witness ==
    /\ Persisted
    /\ data = <<RecA>>
    /\ Len(new_sources) = 2
    /\ new_sources[1].id = "wechat_b1" /\ new_sources[1].name = "A"
    /\ new_sources[2].id = "wechat_b1" /\ new_sources[2].name = "A-renamed"
    /\ count = 10
    /\ Len(cfgFile.sources) = 1
    /\ cfgFile.sources[1].name = "A-renamed"
    /\ cfgFile.sources[1].count = 10

\* C3: while the session loaded from the registry document is usable,
\* ensure_session_interactive returns that session, the credential file is
\* not read and the login module is neither consulted nor called.
C3_SessionPriority ==
    (Usable(WECHAT_SESSION) /\ ~reloaded /\ pc # "import") =>
        /\ pc \notin {"resolve_file", "resolve_login", "resolve_raise"}
        /\ cookieReads = 0
        /\ loginCalls = 0
        /\ wechat_auth = "unknown"
        /\ PastResolve => sessFrom = "persisted" /\ wx_cfg = WECHAT_SESSION

\* the persisted session was returned although the credential file held a
\* usable session too
C3_Witness ==
    /\ pc = "lookup"
    /\ Usable(WECHAT_SESSION)
    /\ sessFrom = "persisted"
    /\ cookieFile.kind = "obj"
    /\ Usable(cookieFile.sess)

\* the credential file is missing, does not parse, or holds no usable session
CredAbsentOrUnusable(f) ==
    f.kind \in {"missing", "unparseable", "empty"} \/ ~Usable(f.sess)

\* C4: with the persisted session unusable and the credential file absent or
\* unusable, one call of ensure_session_interactive calls the login
\* collaborator exactly once, and a usable session it returned is in
\* cfg/cookies.json when the call returns.
C4_SessionFallback ==
    (/\ PastResolve
     /\ ~reloaded
     /\ ~Usable(WECHAT_SESSION)
     /\ wechat_auth # "none"
     /\ sessFrom = "login" \/ CredAbsentOrUnusable(cookieFile)) =>
        /\ loginCalls = 1
        /\ (sessFrom = "login" /\ Usable(wx_cfg)) =>
                cookieFile = CookieFile("obj", wx_cfg)

\* C5: a session that ensure_session_interactive returned, and with which
\* lookups, the merge and the write are made, is usable.
C5_UsableSessionOnly ==
    (sessFrom # "none" \/ lookups > 0 \/ Persisted) => Usable(wx_cfg)

\* C6: with the persisted session unusable, the credential file missing or
\* unparseable and the login module unavailable or returning nothing, the
\* run ends with the NoSessionAvailable error, having made no lookup, no
\* merge, no write of the registry document, no reload and no fetch.
C6_NoSessionAvailable ==
    (/\ PastResolve
     /\ ~Usable(WECHAT_SESSION)
     /\ cookieFile.kind \in {"missing", "unparseable"}
     /\ wechat_auth = "none" \/ loginData.kind = "nothing") =>
        /\ pc = "failed"
        /\ error = "NoSessionAvailable"
        /\ sessFrom = "none"
        /\ lookups = 0
        /\ new_sources = <<>>
        /\ merged = NoDoc("missing")
        /\ ~reloaded
        /\ fetchCalls = <<>>
        /\ crawlLog = <<>>

\* the run failed for want of a session: no file, no login module
C6_Witness ==
    /\ pc = "failed"
    /\ error = "NoSessionAvailable"
    /\ ~Usable(WECHAT_SESSION)
    /\ cookieFile.kind = "missing"
    /\ wechat_auth = "none"

\* C7: the crawl calls the fetch collaborator for every id of the list in
\* order, prints one outcome per call, that call's own (the item count, or
\* the error raised for that id), and no failure ends the run or the loop.
C7_FailureIsolation ==
    /\ Len(crawlLog) = Len(fetchCalls)
    /\ Len(fetchCalls) <= Len(new_ids)
    /\ \A i \in 1..Len(fetchCalls) :
        /\ fetchCalls[i].id = new_ids[i]
        /\ i <= Len(crawlLog) => crawlLog[i] = fetchCalls[i]
    /\ pc = "crawl" => Len(fetchCalls) = idx - 1
    /\ fetchCalls # <<>> =>
        /\ pc \in {"crawl", "done"}
        /\ error = "none"
        /\ pc = "done" => Len(fetchCalls) = Len(new_ids)

\* a crawl of two ids is over: the first fetch failed, the second succeeded
C7_Witness ==
    /\ pc = "done"
    /\ Len(new_ids) = 2
    /\ Len(crawlLog) = 2
    /\ ~crawlLog[1].ok
    /\ crawlLog[2].ok

\* C8: whatever the registry file holds, the read of merge_wechat_config
\* does not fail; a file that is no document reads as no sources, and the
\* merge then persists exactly the new entries.
C8_LenientLoad ==
    /\ error # "MergeLoadError"
    /\ (pc = "merge_open" /\ cfgFile.kind # "doc") =>
            data = <<>> /\ merged.sources = MergeSources(<<>>, new_sources)

\* C9: a failed write of the registry document ends the run with the error:
\* no reload and no fetch follows it; reload and crawl happen only with the
\* merged document in the file.
C9_PersistFailedPropagates ==
    /\ error = "PersistFailed" =>
        /\ pc = "failed"
        /\ ~reloaded
        /\ fetchCalls = <<>>
        /\ crawlLog = <<>>
    /\ (reloaded \/ fetchCalls # <<>> \/ Persisted) => cfgFile = merged

\* the write was cut short and the run ended on the error
C9_Witness ==
    /\ pc = "failed"
    /\ error = "PersistFailed"
    /\ cfgFile.kind = "truncated"

\* C10: at no point of a save, a failed one included, is the registry file
\* empty or partial.
C10_AtomicSave == cfgFile.kind # "truncated"

\* the loop over the names of the current run has ended normally
LoopOver ==
    \/ pc \in {"merge_read", "merge_open", "merge_dump", "reload", "crawl_ask",
                "crawl"}
    \/ pc = "done" /\ names # <<>>
    \/ pc = "failed" /\ error \in {"MergeLoadError", "PersistFailed"}

\* C11: a name whose lookup returns no platform key produces no source
\* record and does not stop the loop: new_sources is, at every moment, the
\* records built for the names that resolved so far, in input order; once
\* the loop is over every name has been looked up; and the document the
\* merge builds is the merge of exactly those records into what it read.
C11_NotFoundSkipped ==
    /\ Len(bizLog) <= Len(names)
    /\ new_sources = EntriesFor(names, bizLog, wx_cfg, count, now)
    /\ new_ids = [i \in 1..Len(new_sources) |-> new_sources[i].id]
    /\ LoopOver => Len(bizLog) = Len(names)
    /\ pc \in {"merge_open", "merge_dump", "reload", "crawl_ask", "crawl"} =>
           merged.sources =
               MergeSources(data, EntriesFor(names, bizLog, wx_cfg, count, now))

\* the first name had no platform key, the second was registered
C11_Witness ==
    /\ Persisted
    /\ Len(names) = 2
    /\ bizLog[1] = NotFound
    /\ bizLog[2] # NotFound
    /\ Len(new_sources) = 1
    /\ new_sources[1].name = names[2]
    /\ new_sources[1].id \in IdsOf(cfgFile.sources)

\* C12: after load_configurations (the load on import, and the load after
\* WECHAT_SOURCES.clear() that follows a merge) WECHAT_SOURCES holds at most
\* one record per id, and for every id of the document loaded the record it
\* holds is the last one of that id in the document.
C12_InMemoryKeyedById ==
    pc # "import" =>
        /\ NoDupIds(WECHAT_SOURCES)
        /\ (pc \in {"args", "crawl_ask"} /\ cfgFile.kind = "doc") =>
               \A id \in IdsOf(cfgFile.sources) :
                   \E i \in 1..Len(WECHAT_SOURCES) :
                       /\ WECHAT_SOURCES[i].id = id
                       /\ WECHAT_SOURCES[i] =
                              cfgFile.sources[Max(IndicesOf(cfgFile.sources, id))]

\* the mapping a list of records stands for: each id to its last record
MappingOf(l) == [id \in IdsOf(l) |-> l[Max(IndicesOf(l, id))]]

\* C13: a document with at least one source and a usable session is
\* loaded; what was loaded is saved back by a merge with no new entries and
\* the loaded session; the document written, loaded by a fresh process,
\* yields the same id-to-record mapping and the same token, cookies_str and
\* user_agent as the first load.
C13_RoundTrip ==
    (pc = "reload" /\ WECHAT_SOURCES # <<>> /\ Usable(WECHAT_SESSION)) =>
        LET again == LoadConfigurations(<<>>, NoSess, cfgFile)
        IN /\ cfgFile.kind = "doc"
           /\ MappingOf(again.sources) = MappingOf(WECHAT_SOURCES)
           /\ \A k \in SessionKeys :
                  Get(again.session, k) = Get(WECHAT_SESSION, k)

\* a document with an id listed twice and a session with a user agent
\* went through the round trip
C13_Witness ==
    /\ pc = "reload"
    /\ new_sources = <<>>
    /\ Usable(WECHAT_SESSION)
    /\ WECHAT_SESSION.user_agent = "UA"
    /\ WECHAT_SESSION.token = Null
    /\ Len(WECHAT_SOURCES) = 2
    /\ ~NoDupIds(WECHAT_SOURCES)
    /\ cfgFile.sources = <<WECHAT_SOURCES[2]>>

DisablingValues ==
    {<<>>, <<"0">>, <<"n", "o">>, <<"o", "f", "f">>, <<"f", "a", "l", "s", "e">>}

MergeStarted ==
    pc \in {"merge_read", "merge_open", "merge_dump", "reload", "crawl_ask",
            "crawl"} \/ merged # NoDoc("missing")

\* C16: in a run the session is resolved before the first lookup, every
\* lookup is made before the merge is entered, the document is written
\* before the registry in memory is reloaded, and the reload is done before
\* the first fetch; every id fetched is the id of an entry built in this
\* run and of a record of the document written; while the crawl runs
\* WECHAT_SOURCES is the `sources` list of the document and holds a record
\* for every id still to be fetched.
C16_RunOrder ==
    /\ lookups > 0 => sessFrom # "none"
    /\ MergeStarted => lookups = Len(names) /\ new_sources # <<>>
    /\ reloaded => cfgFile = merged /\ merged.kind = "doc"
    /\ (pc = "crawl" \/ fetchCalls # <<>>) => reloaded
    /\ \A i \in 1..Len(fetchCalls) :
           /\ fetchCalls[i].id = new_ids[i]
           /\ fetchCalls[i].id \in IdsOf(new_sources)
           /\ fetchCalls[i].id \in IdsOf(cfgFile.sources)
    /\ pc = "crawl" =>
           /\ WECHAT_SOURCES = cfgFile.sources
           /\ \A i \in 1..Len(new_ids) : new_ids[i] \in IdsOf(WECHAT_SOURCES)

\* the registry file held records before the run; the first of two new
\* ids has been fetched, the second is about to be
C16_Witness ==
    /\ pc = "crawl"
    /\ data # <<>>
    /\ Len(new_ids) = 2
    /\ new_ids[1] # new_ids[2]
    /\ idx = 2
    /\ Len(fetchCalls) = 1
    /\ Len(WECHAT_SOURCES) >= 2

\* the records of list l registered for platform key b
WithKey(l, b) == {i \in 1..Len(l) : l[i].biz = b}

\* C17: the id of a built record is "wechat_" followed by its platform
\* key, so two records built in a run, or one built now and one read from
\* the registry file, have the same id exactly when they have the same
\* platform key; and once a merge has returned, every platform key
\* registered in this run, under however many display names and in however
\* many runs, has exactly one record in the document.
C17_StableId ==
    /\ \A i \in 1..Len(new_sources) :
           /\ new_sources[i].id = "wechat_" \o new_sources[i].biz
           /\ \A j \in 1..Len(new_sources) :
                  new_sources[i].id = new_sources[j].id
                      <=> new_sources[i].biz = new_sources[j].biz
           /\ \A j \in 1..Len(data) :
                  new_sources[i].id = data[j].id
                      <=> new_sources[i].biz = data[j].biz
    /\ Persisted =>
           \A i \in 1..Len(bizLog) :
               bizLog[i] # NotFound =>
                   Cardinality(WithKey(cfgFile.sources, bizLog[i])) = 1

\* second run: the key registered by the first run is registered again
\* under another display name, and the document has one record for it
C17_Witness ==
    /\ Persisted
    /\ runs = 2
    /\ Len(new_sources) = 1
    /\ \E j \in 1..Len(data) :
           /\ data[j].created_at = 1
           /\ data[j].biz = new_sources[1].biz
           /\ data[j].name # new_sources[1].name
    /\ Cardinality(WithKey(cfgFile.sources, new_sources[1].biz)) = 1

Min(S) == CHOOSE x \in S : \A y \in S : x <= y

\* where an id first appears in the list read followed by the new entries
FirstAppearance(id) ==
    IF id \in IdsOf(data) THEN Min(IndicesOf(data, id))
    ELSE Len(data) + Min(IndicesOf(new_sources, id))

\* the ids of the document written are those read and those of the new
\* entries, in order of first appearance: ids read keep their order, an id
\* overwritten keeps its place, new ids follow in order
OrderKept ==
    /\ IdsOf(cfgFile.sources) = IdsOf(data) \cup IdsOf(new_sources)
    /\ \A p, q \in 1..Len(cfgFile.sources) :
           p < q => FirstAppearance(cfgFile.sources[p].id)
                        < FirstAppearance(cfgFile.sources[q].id)

\* C18 as stated: once a merge has returned, every record read from the
\* registry file whose id is not among the new entries is in the document
\* written, unchanged in all fields, and the order is kept.
C18_MergeFrame_AsStated ==
    Persisted =>
        /\ \A i \in 1..Len(data) :
               data[i].id \notin IdsOf(new_sources) =>
                   \E j \in 1..Len(cfgFile.sources) : cfgFile.sources[j] = data[i]
        /\ OrderKept

\* C18, amended: once a merge has returned, for every id read from the
\* registry file that is not among the new entries the document written
\* holds the last record read with that id, unchanged in all fields, and
\* no other record of that id (an earlier record of an id listed twice is
\* dropped); and the order is kept.
C18_MergeFrame ==
    Persisted =>
        /\ \A id \in IdsOf(data) \ IdsOf(new_sources) :
               /\ Cardinality(IndicesOf(cfgFile.sources, id)) = 1
               /\ \E j \in 1..Len(cfgFile.sources) :
                      cfgFile.sources[j] = data[Max(IndicesOf(data, id))]
        /\ OrderKept

\* the file held an id twice and a third record after them; the run
\* overwrote the third record's id and added nothing else
C18_Witness ==
    /\ Persisted
    /\ Len(data) = 3
    /\ data[1].id = data[3].id
    /\ data[2].id # data[1].id
    /\ data[1] # data[3]
    /\ IdsOf(new_sources) = {data[2].id}
    /\ Len(cfgFile.sources) = 2
    /\ cfgFile.sources[1] = data[3]
    /\ cfgFile.sources[2].id = data[2].id
    /\ cfgFile.sources[2] # data[2]

\* the registry document held a usable session when the current run
\* imported wechat.config
StartedUsable ==
    /\ pc # "import"
    /\ IF reloaded THEN sessFrom = "persisted" ELSE Usable(WECHAT_SESSION)

\* C19: a run that finds a usable session in the registry document resolves
\* to that session and to no other, the document its merge builds carries
\* the same token, cookies_str and user_agent, and when the run ends,
\* however it ends, the document still holds that session: so no sequence
\* of runs replaces it by one from the credential file or the login.
C19_StickySession ==
    StartedUsable =>
        /\ sessFrom \in {"none", "persisted"}
        /\ sessFrom = "persisted" => Snapshot(wx_cfg) = Snapshot(WECHAT_SESSION)
        /\ pc \in {"merge_open", "merge_dump", "reload", "crawl_ask", "crawl"} =>
               merged.session = Snapshot(WECHAT_SESSION)
        /\ pc \in {"done", "failed"} =>
               /\ cfgFile.kind = "doc"
               /\ Snapshot(cfgFile.session) = Snapshot(WECHAT_SESSION)

\* C20: as long as a run has built no entry (no name given, or no name
\* resolved so far), no step of it changes the registry document, sources
\* or session, no step after the import changes WECHAT_SOURCES or
\* WECHAT_SESSION, and no fetch is started; a run that ends without an
\* entry has therefore written nothing, reloaded nothing and crawled
\* nothing.
C20_NothingResolved ==
    [][(new_sources' = <<>> /\ pc' # "import") =>
          /\ cfgFile' = cfgFile
          /\ pc # "import" => /\ WECHAT_SOURCES' = WECHAT_SOURCES
                               /\ WECHAT_SESSION' = WECHAT_SESSION
          /\ merged' = NoDoc("missing")
          /\ ~reloaded'
          /\ fetchCalls' = <<>>
          /\ crawlLog' = <<>>]_vars

\* two names were given and neither was found, after a login; the run is
\* over and the registry is as the import found it
C20_Witness ==
    /\ pc = "done"
    /\ Len(names) = 2
    /\ bizLog = <<NotFound, NotFound>>
    /\ sessFrom = "login"
    /\ new_sources = <<>>
    /\ cfgFile = Doc(NoSess, <<RecA>>)
    /\ WECHAT_SOURCES = <<RecA>>

Next ==
    \/ Import
    \/ ParseArgs
    \/ ResolvePersisted
    \/ ResolveLocalFile
    \/ ResolveLogin
    \/ ResolveNoLogin
    \/ LoginRaises
    \/ NoSessionRaise
    \/ Lookup
    \/ LookupRaises
    \/ AfterLookup
    \/ MergeRead
    \/ MergeOpen
    \/ MergeOpenFails
    \/ MergeDump
    \/ MergeDumpFails
    \/ Reload
    \/ CrawlDecide
    \/ CrawlOk
    \/ CrawlFails
    \/ CrawlDone
    \/ Restart

Spec == Init /\ [][Next]_vars

\* load, save back: the import, then the merge with no new entries
NextRoundTrip ==
    \/ Import
    \/ SaveLoaded
    \/ MergeRead
    \/ MergeOpen
    \/ MergeOpenFails
    \/ MergeDump
    \/ MergeDumpFails

SpecRoundTrip == InitRoundTrip /\ [][NextRoundTrip]_vars

\* the crawl loop with the requests of each fetch: the event loop runs the
\* coroutine until it returns, and every request returns, raises or is cut
\* by the timeout
NextFetch ==
    \/ FetchRetry
    \/ CrawlOk
    \/ CrawlFails
    \/ CrawlDone

SpecFetch == InitFetch /\ [][NextFetch]_vars /\ WF_vars(NextFetch)

\* the service: import, then the timer and the passes it starts
NextSched ==
    \/ ServiceImport
    \/ TimerFire
    \/ PassEnds

SpecSched == InitSched /\ [][NextSched]_vars
====
